---- MODULE Spec2Model ----
(***************************************************************************)
(* A model of the host side of the decoupled-lookback hazard harness       *)
(* (src/main.cpp): argument parsing, device negotiation, the blocking      *)
(* bridge over the callback API, the trial loop and the telemetry          *)
(* validator.  The GPU runtime (Dawn) is the environment: it chooses the   *)
(* status of each completion callback and the telemetry each stress        *)
(* dispatch leaves in the error buffer.                                    *)
(***************************************************************************)
EXTENDS Integers, Sequences, FiniteSets, TLC

(***************************************************************************)
(* Bounds of the model.                                                    *)
(***************************************************************************)
\* largest test size whose trials are explored
MaxSize == 2
\* largest trial count whose batch is explored
MaxTrials == 2

(***************************************************************************)
(* Program constants.                                                      *)
(***************************************************************************)
SizeExclMax == 65535
BatchExclMax == 1023
InitWorkTiles == 256
SPLIT_THREADS == 2
ERROR_TYPE_MESSAGE == 1
ERROR_TYPE_SHUFFLE == 2
ReadyPayload == 1024
SlotShift == 16
BytesPerWord == 4

(***************************************************************************)
(* 32-bit words.  TLC's integers are 32-bit signed, so a uint32_t is kept  *)
(* as its two 16-bit halves.                                               *)
(***************************************************************************)
W(h, l) == [hi |-> h, lo |-> l]

RECURSIVE AndN(_, _)
AndN(a, b) ==
    IF a = 0 \/ b = 0 THEN 0
    ELSE (a % 2) * (b % 2) + 2 * AndN(a \div 2, b \div 2)

RECURSIVE OrN(_, _)
OrN(a, b) ==
    IF a = 0 THEN b
    ELSE IF b = 0 THEN a
    ELSE (IF a % 2 = 1 \/ b % 2 = 1 THEN 1 ELSE 0) + 2 * OrN(a \div 2, b \div 2)

WordAnd(x, y) == W(AndN(x.hi, y.hi), AndN(x.lo, y.lo))

WordOr(x, y) == W(OrN(x.hi, y.hi), OrN(x.lo, y.lo))

\* x >> n for 0 <= n < 32
WordShr(x, n) ==
    IF n < 16
    THEN W(x.hi \div 2^n, (x.lo \div 2^n) + (x.hi % 2^n) * 2^(16 - n))
    ELSE W(0, x.hi \div 2^(n - 16))

\* a uint32_t literal below 2^16
U(n) == W(0, n)

FLAG_NOT_READY == W(0, 0)
FLAG_READY == W(16384, 0)
FLAG_INCLUSIVE == W(32768, 0)
VALUE_MASK == W(0, 65535)

(***************************************************************************)
(* Command-line strings: a C string is the sequence of its characters.     *)
(***************************************************************************)
Digits == {"0", "1", "2", "3", "4", "5", "6", "7", "8", "9"}

DigitVal(c) ==
    CASE c = "0" -> 0 [] c = "1" -> 1 [] c = "2" -> 2 [] c = "3" -> 3
      [] c = "4" -> 4 [] c = "5" -> 5 [] c = "6" -> 6 [] c = "7" -> 7
      [] c = "8" -> 8 [] c = "9" -> 9

DigitChar(d) == CHOOSE c \in Digits : DigitVal(c) = d

IsSpace(c) == c \in {" ", "\t"}

(***************************************************************************)
(* unsigned long is 64 bits wide (LP64).  A value is kept as three limbs   *)
(* base 10^7, most significant first.                                      *)
(***************************************************************************)
LimbBase == 10^7

ULONG_MAX == <<184467, 4407370, 9551615>>

LimbZero == <<0, 0, 0>>

LimbGt(v, w) ==
    \/ v[1] > w[1]
    \/ v[1] = w[1] /\ v[2] > w[2]
    \/ v[1] = w[1] /\ v[2] = w[2] /\ v[3] > w[3]

\* v * 10 + d, the top limb left unreduced
LimbMulAdd(v, d) ==
    LET c3 == v[3] * 10 + d
        c2 == v[2] * 10 + (c3 \div LimbBase)
        c1 == v[1] * 10 + (c2 \div LimbBase)
    IN  <<c1, c2 % LimbBase, c3 % LimbBase>>

\* (ULONG_MAX + 1 - v) for 0 < v <= ULONG_MAX: unsigned negation
LimbNeg(v) ==
    LET d3 == ULONG_MAX[3] + 1 - v[3]
        b3 == IF d3 < 0 THEN 1 ELSE 0
        d2 == ULONG_MAX[2] - v[2] - b3
        b2 == IF d2 < 0 THEN 1 ELSE 0
        d1 == ULONG_MAX[1] - v[1] - b2
        r3 == d3 + b3 * LimbBase
        c3 == r3 \div LimbBase
        r2 == d2 + b2 * LimbBase + c3
    IN  IF v = LimbZero THEN LimbZero
        ELSE <<d1 + (r2 \div LimbBase), r2 % LimbBase, r3 % LimbBase>>

RECURSIVE SkipSpace(_, _)
SkipSpace(s, k) ==
    IF k <= Len(s) /\ IsSpace(s[k]) THEN SkipSpace(s, k + 1) ELSE k

RECURSIVE ScanDigits(_, _)
ScanDigits(s, k) ==
    IF k <= Len(s) /\ s[k] \in Digits THEN ScanDigits(s, k + 1) ELSE k

\* the value of the digits s[k..e-1], with the overflow flag of the conversion
RECURSIVE Accumulate(_, _, _, _)
Accumulate(s, k, e, acc) ==
    IF k >= e \/ acc.ovf THEN acc
    ELSE LET nv == LimbMulAdd(acc.v, DigitVal(s[k]))
         IN  Accumulate(s, k + 1, e,
                        IF LimbGt(nv, ULONG_MAX)
                        THEN [v |-> ULONG_MAX, ovf |-> TRUE]
                        ELSE [v |-> nv, ovf |-> FALSE])

\* std::strtoul(s, &endptr, 10): t is the result, endptr the number of
\* characters consumed (0: endptr == s), erange whether errno is ERANGE.
strtoul(s) ==
    LET b == SkipSpace(s, 1)
        neg == b <= Len(s) /\ s[b] = "-"
        d == IF b <= Len(s) /\ s[b] \in {"+", "-"} THEN b + 1 ELSE b
        e == ScanDigits(s, d)
        acc == Accumulate(s, d, e, [v |-> LimbZero, ovf |-> FALSE])
    IN  IF e = d THEN [t |-> LimbZero, endptr |-> 0, erange |-> FALSE]
        ELSE IF acc.ovf THEN [t |-> ULONG_MAX, endptr |-> e - 1, erange |-> TRUE]
        ELSE [t |-> IF neg THEN LimbNeg(acc.v) ELSE acc.v,
              endptr |-> e - 1, erange |-> FALSE]

ParseNoRangeCheck(s, exclMax) ==
    LET r == strtoul(s)
    IN  IF r.erange \/ r.endptr = 0 \/ r.endptr < Len(s)
        THEN [ok |-> FALSE, o |-> 0]
        ELSE [ok |-> TRUE, o |-> r.t[3]]

\* bool parse(const char* arg_str, uint32_t exclMax, uint32_t& o)
parse(s, exclMax) ==
    LET r == strtoul(s)
    IN  IF r.erange \/ r.endptr = 0 \/ r.endptr < Len(s)
           \/ LimbGt(r.t, <<0, 0, exclMax>>)
        THEN [ok |-> FALSE, o |-> 0]
        ELSE [ok |-> TRUE, o |-> r.t[3]]

(***************************************************************************)
(* The arguments the program is started with.  argv holds argv[1..]; argc  *)
(* is Len(argv) + 1.                                                       *)
(***************************************************************************)
RECURSIVE Dec(_)
Dec(n) == IF n < 10 THEN <<DigitChar(n)>> ELSE Dec(n \div 10) \o <<DigitChar(n % 10)>>

SmallArgs == {Dec(n) : n \in 0..MaxSize} \cup {Dec(n) : n \in 0..MaxTrials}

EdgeArgs ==
    { Dec(SizeExclMax), Dec(SizeExclMax + 1), Dec(BatchExclMax), Dec(BatchExclMax + 1),
      <<>>, <<"x">>, <<"1", "x">>, <<"1", " ">>, <<" ", "1">>, <<"+", "1">>,
      <<"-", "0">>, <<"-", "1">>, <<"-">>, <<"0", "1">>,
      Dec(18446) \o Dec(74407) \o Dec(37095) \o Dec(51616),
      <<"-">> \o Dec(18446) \o Dec(74407) \o Dec(37095) \o Dec(51615) }

\* every pair of small arguments, and every edge argument in either place
\* beside a plain 1
Argvs ==
    {<<>>, <<Dec(1)>>, <<Dec(1), Dec(1), Dec(1)>>}
        \cup {<<a, b>> : a \in SmallArgs, b \in SmallArgs}
        \cup {<<e, Dec(1)>> : e \in EdgeArgs}
        \cup {<<Dec(1), e>> : e \in EdgeArgs}

(***************************************************************************)
(* Telemetry.  The error buffer holds, per tile and per thread slot, the   *)
(* pair <<error code, observed value>>.  The device is the environment:    *)
(* a stress dispatch leaves clean pairs up to a first recorded hazard, and *)
(* one common entry (clean, or a hazard of either class) in every pair     *)
(* after it.                                                               *)
(***************************************************************************)
CleanKinds == {<<U(0), U(0)>>, <<U(0), U(7)>>}

HazardKinds(k) ==
    { <<U(1), IF k = 0 THEN W(16384, 1024) ELSE W(16384, 0)>>,
      <<U(1), W(32768, 5)>>,
      <<U(1), W(0, 7)>>,
      <<U(2), U(9)>>,
      <<U(3), U(9)>>,
      <<W(65535, 65535), W(32768, 0)>> }

FillerKinds == {<<U(0), U(0)>>, <<U(1), W(32768, 5)>>, <<U(2), U(9)>>}

\* the pair of word w (1-based) of a telemetry vector, 1-based
PairOf(w) == (w + 1) \div 2

MkTelemetry(S, p, c, h, f) ==
    [w \in 1..(4 * S) |->
        LET q == PairOf(w)
            e == IF q < p THEN c ELSE IF q = p THEN h ELSE f
        IN  e[2 - (w % 2)]]

Telemetries(S) ==
    {MkTelemetry(S, 2 * S + 1, c, c, c) : c \in CleanKinds}
        \cup UNION { { MkTelemetry(S, p, c, h, f) :
                          c \in CleanKinds, h \in HazardKinds((p - 1) % 2), f \in FillerKinds }
                     : p \in 1..(2 * S) }

\* the telemetry vectors of every explored size
TelemetrySets == [S \in 0..MaxSize |-> Telemetries(S)]

OnesVec(n) == [w \in 1..n |-> U(1)]

\* std::vector<uint32_t>(n): n words, value-initialised
ZeroVec(n) == [w \in 1..n |-> U(0)]

\* every error code of a telemetry vector is 0
IsClean(tel) == \A w \in 1..Len(tel) : w % 2 = 1 => tel[w] = U(0)

(***************************************************************************)
(* Output of one step.                                                     *)
(***************************************************************************)
NoOut == [kind |-> "none"]

Diag(class, errCode, got, tile_id, t, expected) ==
    [kind |-> "diag", class |-> class, tile |-> tile_id, tid |-> t, code |-> errCode,
     got |-> got, expected |-> expected]

ReadyExpected(t) ==
    WordOr(WordAnd(WordShr(U(ReadyPayload), t * SlotShift), VALUE_MASK), FLAG_READY)

CheckErrorReadyLegal(errCode, got, tile_id, t) ==
    IF errCode = U(0) \/ (errCode = U(ERROR_TYPE_MESSAGE) /\ got = ReadyExpected(t))
    THEN [ok |-> TRUE, out |-> NoOut]
    ELSE [ok |-> FALSE,
          out |-> Diag(IF errCode = U(ERROR_TYPE_MESSAGE) THEN "message"
                       ELSE IF errCode = U(ERROR_TYPE_SHUFFLE) THEN "shuffle"
                       ELSE "unknown", errCode, got, tile_id, t,
                       IF errCode = U(ERROR_TYPE_MESSAGE) THEN ReadyExpected(t) ELSE U(0))]

CheckErrorInclusiveLegal(errCode, got, tile_id, t) ==
    IF errCode = U(0)
       \/ (errCode = U(ERROR_TYPE_MESSAGE) /\ WordAnd(got, FLAG_INCLUSIVE) = FLAG_INCLUSIVE)
    THEN [ok |-> TRUE, out |-> NoOut]
    ELSE [ok |-> FALSE,
          out |-> Diag(IF errCode = U(ERROR_TYPE_MESSAGE) THEN "message"
                       ELSE IF errCode = U(ERROR_TYPE_SHUFFLE) THEN "shuffle"
                       ELSE "unknown", errCode, got, tile_id, t,
                       IF errCode = U(ERROR_TYPE_MESSAGE) THEN ReadyExpected(t) ELSE U(0))]

CheckErrorUnknownIgnored(errCode, got, tile_id, t) ==
    IF errCode \notin {U(ERROR_TYPE_MESSAGE), U(ERROR_TYPE_SHUFFLE)}
    THEN [ok |-> TRUE, out |-> NoOut]
    ELSE [ok |-> FALSE,
          out |-> Diag(IF errCode = U(ERROR_TYPE_MESSAGE) THEN "message" ELSE "shuffle",
                       errCode, got, tile_id, t,
                       IF errCode = U(ERROR_TYPE_MESSAGE) THEN ReadyExpected(t) ELSE U(0))]

\* bool CheckError(uint32_t errCode, uint32_t got, uint32_t tile_id, uint32_t tid)
CheckError(errCode, got, tile_id, t) ==
    LET val_content_for_ready_state ==
            WordAnd(WordShr(U(ReadyPayload), t * SlotShift), VALUE_MASK)
        expected_full_value_for_ready_state ==
            WordOr(val_content_for_ready_state, FLAG_READY)
    IN  IF errCode = U(0) THEN [ok |-> TRUE, out |-> NoOut]
        ELSE IF errCode = U(ERROR_TYPE_MESSAGE)
        THEN [ok |-> FALSE,
              out |-> Diag("message", errCode, got, tile_id, t,
                           expected_full_value_for_ready_state)]
        ELSE IF errCode = U(ERROR_TYPE_SHUFFLE)
        THEN [ok |-> FALSE, out |-> Diag("shuffle", errCode, got, tile_id, t, U(0))]
        ELSE [ok |-> FALSE, out |-> Diag("unknown", errCode, got, tile_id, t, U(0))]

(***************************************************************************)
(* State.                                                                  *)
(***************************************************************************)
VARIABLES
    argv,         \* argv[1..] as given to main
    pc,           \* the statement main's thread is at
    stack,        \* return labels of the calls in progress
    exitStatus,   \* "running", "EXIT_SUCCESS", "EXIT_FAILURE" or "crashed"
    size,         \* main's size
    batchSize,    \* main's batchSize
    instance,     \* wgpu::Instance: "unset", "null" or "valid"
    adapter,      \* wgpu::Adapter
    device,       \* wgpu::Device (and its queue)
    pending,      \* registered operations whose callback has not fired
    promise,      \* the std::promise of the wait in progress
    buffs,        \* GPUBuffers: byte sizes of the five buffers
    cs,           \* the shader GetAllShaders is creating
    shaders,      \* the shaders whose pipeline is built
    uniforms,     \* content of the info buffer
    queue,        \* command buffers submitted and not yet retired
    comBuffer,    \* RunTest's finished command buffer
    err,          \* error buffer: writes so far, and the last telemetry written
    readback,     \* staging buffer: the error-buffer version it holds, map state,
                  \* byte count of the last map request
    readOut,      \* Validate's host vector
    tile_id,      \* Validate's loop counters
    tid,
    ret,          \* Validate's return value
    i,            \* RunTest's loop counter
    testsPassed,  \* RunTest's pass count
    cout,         \* what this step printed on stdout
    cerr,         \* what this step printed on stderr
    cleanTrials,  \* history: trials whose telemetry had no nonzero error code
    trialDiags,   \* history: diagnostics printed in the trial in progress
    nStress,      \* history: init+stress command buffers submitted
    gpuWork,      \* history: buffers created, shaders compiled, submissions made
    mapCalls,     \* history: MapAsync calls of the Validate in progress
    mapStatus,    \* history: status of the last map callback of that Validate
    maxRead       \* history: highest readOut index that Validate has read

vars ==
    <<argv, pc, stack, exitStatus, size, batchSize, instance, adapter, device,
      pending, promise, buffs, cs, shaders, uniforms, queue, comBuffer,
      err, readback, readOut, tile_id, tid, ret, i, testsPassed, cout, cerr,
      cleanTrials, trialDiags, nStress, gpuWork, mapCalls, mapStatus, maxRead>>

argVars == <<argv, size, batchSize>>

ctxVars == <<instance, adapter, device>>

waitVars == <<pending, promise>>

gpuVars == <<buffs, cs, shaders, uniforms, queue, comBuffer, err, readback>>

valVars == <<readOut, tile_id, tid, ret, mapCalls, mapStatus, maxRead>>

runVars == <<i, testsPassed, cleanTrials, trialDiags, nStress>>

NoBuffers == [created |-> FALSE, info |-> 0, scanBump |-> 0, scan |-> 0, readback |-> 0, err |-> 0]

Init ==
    /\ argv \in Argvs
    /\ pc = "main"
    /\ stack = <<>>
    /\ exitStatus = "running"
    /\ size = 0
    /\ batchSize = 0
    /\ instance = "unset"
    /\ adapter = "unset"
    /\ device = "unset"
    /\ pending = <<>>
    /\ promise = "none"
    /\ buffs = NoBuffers
    /\ cs = "Init"
    /\ shaders = {}
    /\ uniforms = <<>>
    /\ queue = <<>>
    /\ comBuffer = <<>>
    /\ err = [ver |-> 0, data |-> <<>>]
    /\ readback = [holds |-> 0, map |-> "unmapped", bytes |-> 0]
    /\ readOut = <<>>
    /\ tile_id = 0
    /\ tid = 0
    /\ ret = FALSE
    /\ i = 0
    /\ testsPassed = 0
    /\ cout = NoOut
    /\ cerr = ""
    /\ cleanTrials = 0
    /\ trialDiags = 0
    /\ nStress = 0
    /\ gpuWork = 0
    /\ mapCalls = 0
    /\ mapStatus = "none"
    /\ maxRead = 0

Quiet == cout' = NoOut /\ cerr' = ""

Say(msg) == cout' = NoOut /\ cerr' = msg

ExitFailure(msg) ==
    /\ pc' = "exit"
    /\ exitStatus' = "EXIT_FAILURE"
    /\ Say(msg)

(***************************************************************************)
(* main: argument checks.                                                  *)
(***************************************************************************)
MainArgc ==
    /\ pc = "main"
    /\ IF Len(argv) + 1 # 3
       THEN ExitFailure("Usage")
       ELSE pc' = "parseSize" /\ exitStatus' = exitStatus /\ Quiet
    /\ UNCHANGED <<argVars, stack, ctxVars, waitVars, gpuVars, valVars, runVars, gpuWork>>

MainParseSize ==
    /\ pc = "parseSize"
    /\ LET r == parse(argv[1], SizeExclMax)
       IN  IF ~r.ok
           THEN ExitFailure("Expected uint32_t less than 65536") /\ size' = size
           ELSE pc' = "parseBatch" /\ size' = r.o /\ exitStatus' = exitStatus /\ Quiet
    /\ UNCHANGED <<argv, batchSize, stack, ctxVars, waitVars, gpuVars, valVars, runVars, gpuWork>>

MainParseBatch ==
    /\ pc = "parseBatch"
    /\ LET r == parse(argv[2], BatchExclMax)
       IN  IF ~r.ok
           THEN ExitFailure("Expected uint32_t less than 1024") /\ batchSize' = batchSize
           ELSE pc' = "CreateInstance" /\ batchSize' = r.o /\ exitStatus' = exitStatus /\ Quiet
    /\ UNCHANGED <<argv, size, stack, ctxVars, waitVars, gpuVars, valVars, runVars, gpuWork>>

(***************************************************************************)
(* The bridge: register a callback, then pump ProcessEvents until the      *)
(* promise is set.  Callbacks fire only inside ProcessEvents.              *)
(***************************************************************************)
RegisterWithoutWaiting(op, retLabel) ==
    /\ pending' = Append(pending, op)
    /\ promise' = promise
    /\ pc' = retLabel
    /\ stack' = stack

Register(op, retLabel) ==
    /\ pending' = Append(pending, op)
    /\ promise' = "pending"
    /\ pc' = "wait"
    /\ stack' = <<retLabel>> \o stack

\* the statuses the runtime may report for an operation on handle h
StatusSet(h) == IF h = "valid" THEN {"Success", "Error"} ELSE {"Error"}

Fires(op) == pc = "wait" /\ pending # <<>> /\ Head(pending) = op

SetValueKeepsPending ==
    /\ pending' = pending
    /\ promise' = "set"

SetValueForgotten ==
    /\ pending' = Tail(pending)
    /\ promise' = promise

\* promise.set_value(), the last statement of every callback
SetValue ==
    /\ pending' = Tail(pending)
    /\ promise' = "set"

\* a ProcessEvents call that delivers no callback
ProcessEventsIdle ==
    /\ pc = "wait"
    /\ promise = "pending"
    /\ Quiet
    /\ UNCHANGED <<argVars, pc, stack, exitStatus, ctxVars, waitVars, gpuVars, valVars,
                   runVars, gpuWork>>

FutureReadyEarly(p) == p \in {"pending", "set"}

\* future.wait_for(...) == std::future_status::timeout is false
FutureReady(p) == p = "set"

\* the wait loop ends
WaitReturn ==
    /\ pc = "wait"
    /\ FutureReady(promise)
    /\ pc' = Head(stack)
    /\ stack' = Tail(stack)
    /\ promise' = "none"
    /\ Quiet
    /\ UNCHANGED <<argVars, exitStatus, ctxVars, pending, gpuVars, valVars, runVars, gpuWork>>

(***************************************************************************)
(* GetGPUContext.                                                          *)
(***************************************************************************)
CreateInstance ==
    /\ pc = "CreateInstance"
    /\ \E r \in {"valid", "null"} :
          /\ instance' = r
          /\ IF r = "null" THEN Say("Instance creation failed!") ELSE Quiet
    /\ pc' = "RequestAdapter"
    /\ UNCHANGED <<argVars, stack, exitStatus, adapter, device, waitVars, gpuVars,
                   valVars, runVars, gpuWork>>

RequestAdapter ==
    /\ pc = "RequestAdapter"
    /\ Register("adapter", "GetInfo")
    /\ Quiet
    /\ UNCHANGED <<argVars, exitStatus, ctxVars, gpuVars, valVars, runVars, gpuWork>>

AdapterCallback ==
    /\ Fires("adapter")
    /\ \E status \in StatusSet(instance) :
          IF status = "Success"
          THEN adapter' = "valid" /\ Quiet
          ELSE adapter' = "null" /\ Say("Failed to get adapter")
    /\ SetValue
    /\ UNCHANGED <<argVars, pc, stack, exitStatus, instance, device, gpuVars, valVars,
                   runVars, gpuWork>>

\* adapter.GetInfo and the six lines printed from it
GetInfo ==
    /\ pc = "GetInfo"
    /\ pc' = "RequestDevice"
    /\ cout' = [kind |-> "adapterInfo"]
    /\ cerr' = ""
    /\ UNCHANGED <<argVars, stack, exitStatus, ctxVars, waitVars, gpuVars, valVars,
                   runVars, gpuWork>>

RequestDevice ==
    /\ pc = "RequestDevice"
    /\ Register("device", "GetQueue")
    /\ Quiet
    /\ UNCHANGED <<argVars, exitStatus, ctxVars, gpuVars, valVars, runVars, gpuWork>>

DeviceCallback ==
    /\ Fires("device")
    /\ \E status \in StatusSet(adapter) :
          IF status = "Success"
          THEN device' = "valid" /\ Quiet
          ELSE device' = "null" /\ Say("Failed to get device")
    /\ SetValue
    /\ UNCHANGED <<argVars, pc, stack, exitStatus, instance, adapter, gpuVars, valVars,
                   runVars, gpuWork>>

\* device.GetQueue() and the assignments to *context
GetQueue ==
    /\ pc = "GetQueue"
    /\ pc' = "GetGPUBuffers"
    /\ Quiet
    /\ UNCHANGED <<argVars, stack, exitStatus, ctxVars, waitVars, gpuVars, valVars,
                   runVars, gpuWork>>

(***************************************************************************)
(* GetGPUBuffers, GetAllShaders, InitializeUniforms.                       *)
(***************************************************************************)
BufferSizesSmallStaging(n) ==
    [created |-> TRUE,
     info |-> BytesPerWord * 4,
     scanBump |-> BytesPerWord,
     scan |-> BytesPerWord * n * 2,
     readback |-> BytesPerWord * n * 2,
     err |-> BytesPerWord * n * 4]

BufferSizes(n) ==
    [created |-> TRUE,
     info |-> BytesPerWord * 4,
     scanBump |-> BytesPerWord,
     scan |-> BytesPerWord * n * 2,
     readback |-> BytesPerWord * n * 4,
     err |-> BytesPerWord * n * 4]

GetGPUBuffers ==
    /\ pc = "GetGPUBuffers"
    /\ buffs' = BufferSizes(size)
    /\ gpuWork' = gpuWork + 5
    /\ pc' = "CreateShader"
    /\ Quiet
    /\ UNCHANGED <<argVars, stack, exitStatus, ctxVars, waitVars, cs, shaders, uniforms,
                   queue, comBuffer, err, readback, valVars, runVars>>

\* ReadWGSL, CreateShaderModule and the GetCompilationInfo request
CreateShaderFromSource ==
    /\ pc = "CreateShader"
    /\ \E opened \in BOOLEAN :
          IF opened THEN Quiet ELSE Say("Failed to open file")
    /\ gpuWork' = gpuWork + 1
    /\ Register("compile", "GetComputeShaderPipeline")
    /\ UNCHANGED <<argVars, exitStatus, ctxVars, gpuVars, valVars, runVars>>

CompilationCallback ==
    /\ Fires("compile")
    /\ \E msg \in {"", "Shader compilation error", "Shader compilation warning"} :
          Say(msg)
    /\ SetValue
    /\ UNCHANGED <<argVars, pc, stack, exitStatus, ctxVars, gpuVars, valVars, runVars,
                   gpuWork>>

GetComputeShaderPipeline ==
    /\ pc = "GetComputeShaderPipeline"
    /\ shaders' = shaders \cup {cs}
    /\ IF cs = "Init"
       THEN cs' = "Stress" /\ pc' = "CreateShader"
       ELSE cs' = cs /\ pc' = "InitializeUniforms"
    /\ Quiet
    /\ UNCHANGED <<argVars, stack, exitStatus, ctxVars, waitVars, buffs, uniforms, queue,
                   comBuffer, err, readback, valVars, runVars, gpuWork>>

\* WriteBuffer(info), Submit(0, ...), then the call of QueueSync
InitializeUniforms ==
    /\ pc = "InitializeUniforms"
    /\ uniforms' = IF device = "valid" THEN <<size, 0, 0, 0>> ELSE uniforms
    /\ gpuWork' = gpuWork + 1
    /\ pc' = "QueueSync"
    /\ stack' = <<"RunTest">> \o stack
    /\ Quiet
    /\ UNCHANGED <<argVars, exitStatus, ctxVars, waitVars, buffs, cs, shaders, queue,
                   comBuffer, err, readback, valVars, runVars>>

(***************************************************************************)
(* QueueSync and the retirement of submitted work.                         *)
(***************************************************************************)
QueueSync ==
    /\ pc = "QueueSync"
    /\ pending' = Append(pending, "workdone")
    /\ promise' = "pending"
    /\ pc' = "wait"
    /\ Quiet
    /\ UNCHANGED <<argVars, stack, exitStatus, ctxVars, gpuVars, valVars, runVars, gpuWork>>

HasStress(q) == \E k \in 1..Len(q) : q[k].kind = "compute"

\* the buffers after the command buffers of q have run in order: a dispatch
\* rewrites the error buffer, a copy brings the staging buffer up to date
RECURSIVE Retire(_, _)
Retire(q, st) ==
    IF q = <<>> THEN st
    ELSE LET c == Head(q)
             nx == IF c.kind = "compute"
                   THEN [st EXCEPT !.err.ver = st.err.ver + 1]
                   ELSE [st EXCEPT !.readback.holds = st.err.ver]
         IN  Retire(Tail(q), nx)

WorkDoneCallback ==
    /\ Fires("workdone")
    /\ \E status \in StatusSet(device) :
          IF status = "Success" THEN Quiet ELSE Say("Queue submission failed")
    /\ LET ran == device = "valid"
           st == IF ran THEN Retire(queue, [err |-> err, readback |-> readback])
                 ELSE [err |-> err, readback |-> readback]
           wrote == ran /\ HasStress(queue)
       IN  /\ err' \in [ver : {st.err.ver},
                        data : IF wrote THEN TelemetrySets[size] ELSE {err.data}]
           /\ readback' = st.readback
           /\ cleanTrials' = IF wrote /\ IsClean(err'.data)
                             THEN cleanTrials + 1 ELSE cleanTrials
    /\ queue' = <<>>
    /\ SetValue
    /\ UNCHANGED <<argVars, pc, stack, exitStatus, ctxVars, buffs, cs, shaders, uniforms,
                   comBuffer, valVars, i, testsPassed, trialDiags, nStress, gpuWork>>

(***************************************************************************)
(* RunTest.                                                                *)
(***************************************************************************)
RunTestBegin ==
    /\ pc = "RunTest"
    /\ size <= MaxSize
    /\ batchSize <= MaxTrials
    /\ testsPassed' = 0
    /\ i' = 0
    /\ pc' = "loop"
    /\ Quiet
    /\ UNCHANGED <<argVars, stack, exitStatus, ctxVars, waitVars, gpuVars, valVars,
                   cleanTrials, trialDiags, nStress, gpuWork>>

RunTestContinuesUntilFailure(k, n, passed) == k < n /\ passed = k

\* the loop condition of RunTest
RunTestContinues(k, n, passed) == k < n

EncodedPassesStressFirst(n) ==
    <<[label |-> "Stress", workTiles |-> n], [label |-> "Init", workTiles |-> InitWorkTiles]>>

\* the passes recorded by the two SetComputePass calls of a trial
EncodedPasses(n) ==
    <<[label |-> "Init", workTiles |-> InitWorkTiles], [label |-> "Stress", workTiles |-> n]>>

\* SetComputePass(init, 256), SetComputePass(stress, size), Finish
RunTestEncode ==
    /\ pc = "loop"
    /\ RunTestContinues(i, batchSize, testsPassed)
    /\ comBuffer' = [kind |-> "compute", passes |-> EncodedPasses(size)]
    /\ trialDiags' = 0
    /\ pc' = "submit"
    /\ Quiet
    /\ UNCHANGED <<argVars, stack, exitStatus, ctxVars, waitVars, buffs, cs, shaders,
                   uniforms, queue, err, readback, valVars, i, testsPassed, cleanTrials,
                   nStress, gpuWork>>

\* queue.Submit(1, &comBuffer), then the call of QueueSync
RunTestSubmit ==
    /\ pc = "submit"
    /\ queue' = IF device = "valid" THEN Append(queue, comBuffer) ELSE queue
    /\ comBuffer' = <<>>
    /\ nStress' = nStress + 1
    /\ gpuWork' = gpuWork + 1
    /\ pc' = "QueueSync"
    /\ stack' = <<"Validate">> \o stack
    /\ Quiet
    /\ UNCHANGED <<argVars, exitStatus, ctxVars, waitVars, buffs, cs, shaders, uniforms,
                   err, readback, valVars, i, testsPassed, cleanTrials, trialDiags>>

PassIncrementPerSlot(r) == IF r THEN SPLIT_THREADS ELSE 0

\* Validate(...) ? 1 : 0
PassIncrement(r) == IF r THEN 1 ELSE 0

\* testsPassed += ...; ++i (Validate's locals are gone)
RunTestAdd ==
    /\ pc = "RunTestAdd"
    /\ testsPassed' = testsPassed + PassIncrement(ret)
    /\ i' = i + 1
    /\ readOut' = <<>>
    /\ tile_id' = 0
    /\ tid' = 0
    /\ ret' = FALSE
    /\ mapCalls' = 0
    /\ mapStatus' = "none"
    /\ maxRead' = 0
    /\ pc' = "loop"
    /\ Quiet
    /\ UNCHANGED <<argVars, stack, exitStatus, ctxVars, waitVars, gpuVars, cleanTrials,
                   trialDiags, nStress, gpuWork>>

\* the second number of the summary line
SummaryTotal(n, k) == n

\* printf("%u / %u", ...); printf(... " ALL TESTS PASSED\n" : " TEST FAILED")
RunTestPrint ==
    /\ pc = "loop"
    /\ ~RunTestContinues(i, batchSize, testsPassed)
    /\ cout' = [kind |-> "summary", passed |-> testsPassed,
                total |-> SummaryTotal(batchSize, i),
                note |-> IF testsPassed = batchSize
                         THEN " ALL TESTS PASSED" ELSE " TEST FAILED"]
    /\ cerr' = ""
    /\ pc' = "return"
    /\ UNCHANGED <<argVars, stack, exitStatus, ctxVars, waitVars, gpuVars, valVars,
                   runVars, gpuWork>>

StatusByResult(passed, n) == IF passed = n THEN "EXIT_SUCCESS" ELSE "EXIT_FAILURE"

\* the value main returns after RunTest
MainStatus(passed, n) == "EXIT_SUCCESS"

\* return EXIT_SUCCESS: nothing more is printed, the last line stays
MainReturn ==
    /\ pc = "return"
    /\ pc' = "done"
    /\ exitStatus' = MainStatus(testsPassed, batchSize)
    /\ cout' = cout
    /\ cerr' = ""
    /\ UNCHANGED <<argVars, stack, ctxVars, waitVars, gpuVars, valVars, runVars, gpuWork>>

(***************************************************************************)
(* Validate, CopyAndReadbackSync, CopyBufferSync, ReadbackSync.            *)
(***************************************************************************)
ValidateNeverVacuous(n) == FALSE

\* if (size == 0) return true;
ValidateIsVacuous(n) == n = 0

ValidateEntry ==
    /\ pc = "Validate"
    /\ IF ValidateIsVacuous(size)
       THEN ret' = TRUE /\ readOut' = readOut /\ pc' = "RunTestAdd"
       ELSE /\ ret' = ret
            /\ readOut' = ZeroVec(size * SPLIT_THREADS * 2)
            /\ pc' = "CopyBufferSync"
    /\ Quiet
    /\ UNCHANGED <<argVars, stack, exitStatus, ctxVars, waitVars, gpuVars, tile_id, tid, mapCalls,
                   mapStatus, maxRead, runVars, gpuWork>>

\* CopyBufferToBuffer(err, 0, readback, 0, bytes), Finish, Submit, then QueueSync
CopyBufferSync ==
    /\ pc = "CopyBufferSync"
    /\ LET c == [kind |-> "copy", offset |-> 0 * BytesPerWord,
                 bytes |-> Len(readOut) * BytesPerWord]
       IN  queue' = IF device = "valid" THEN Append(queue, c) ELSE queue
    /\ gpuWork' = gpuWork + 1
    /\ pc' = "QueueSync"
    /\ stack' = <<"ReadbackSync">> \o stack
    /\ Quiet
    /\ UNCHANGED <<argVars, exitStatus, ctxVars, waitVars, buffs, cs, shaders, uniforms,
                   comBuffer, err, readback, valVars, runVars>>

\* dstReadback->MapAsync(Read, 0, bytes, ...)
ReadbackSync ==
    /\ pc = "ReadbackSync"
    /\ pending' = Append(pending, "map")
    /\ promise' = "pending"
    /\ readback' = [readback EXCEPT !.map = "pending",
                                     !.bytes = Len(readOut) * BytesPerWord]
    /\ mapCalls' = mapCalls + 1
    /\ pc' = "wait"
    /\ stack' = <<"ValidateLoop">> \o stack
    /\ Quiet
    /\ UNCHANGED <<argVars, exitStatus, ctxVars, buffs, cs, shaders, uniforms, queue,
                   comBuffer, err, readOut, tile_id, tid, ret, mapStatus, maxRead, runVars,
                   gpuWork>>

\* the content of the error buffer: zero until a dispatch has written it
ErrContent == IF err.data = <<>> THEN ZeroVec(size * SPLIT_THREADS * 2) ELSE err.data

\* what a read of the staging buffer can return: the error buffer's words
\* when the last copy ran after the last write, words of an older trial
\* otherwise
StagingContents ==
    IF readback.holds = err.ver THEN {ErrContent}
    ELSE IF readback.holds = 0 THEN {ZeroVec(size * SPLIT_THREADS * 2)}
    ELSE TelemetrySets[size]

MapStateWithoutUnmap(status) == IF status = "Success" THEN "mapped" ELSE "unmapped"

\* the map state the callback leaves: Unmap() after the memcpy on success,
\* a rejected request on failure
MapStateAfter(status) == "unmapped"

MapCallback ==
    /\ Fires("map")
    /\ \E status \in StatusSet(device) :
          /\ mapStatus' = status
          /\ readback' = [readback EXCEPT !.map = MapStateAfter(status)]
          /\ IF status = "Success"
             THEN /\ \E data \in StagingContents : readOut' = data
                  /\ Quiet
             ELSE /\ readOut' = readOut
                  /\ Say("Bad readback")
    /\ SetValue
    /\ UNCHANGED <<argVars, pc, stack, exitStatus, ctxVars, buffs, cs, shaders, uniforms,
                   queue, comBuffer, err, tile_id, tid, ret, mapCalls, maxRead, runVars,
                   gpuWork>>

ValidateNeverStops(ok) == FALSE

\* if (!CheckError(...)) return false;
ValidateStops(ok) == ~ok

Max(a, b) == IF a > b THEN a ELSE b

\* one pass through the body of the inner loop of Validate
ValidateStep ==
    /\ pc = "ValidateLoop"
    /\ tile_id < size
    /\ LET t == tile_id * SPLIT_THREADS * 2
           errCode == readOut[t + tid * 2 + 1]
           got_val == readOut[t + tid * 2 + 1 + 1]
           r == CheckError(errCode, got_val, tile_id, tid)
       IN  /\ cout' = r.out
           /\ cerr' = ""
           /\ trialDiags' = IF r.out.kind = "diag" THEN trialDiags + 1 ELSE trialDiags
           /\ maxRead' = Max(maxRead, t + tid * 2 + 1 + 1)
           /\ IF ValidateStops(r.ok)
              THEN /\ ret' = FALSE
                   /\ pc' = "RunTestAdd"
                   /\ UNCHANGED <<tile_id, tid>>
              ELSE /\ ret' = ret
                   /\ pc' = pc
                   /\ IF tid + 1 < SPLIT_THREADS
                      THEN tid' = tid + 1 /\ tile_id' = tile_id
                      ELSE tid' = 0 /\ tile_id' = tile_id + 1
    /\ UNCHANGED <<argVars, stack, exitStatus, ctxVars, waitVars, gpuVars, readOut,
                   mapCalls, mapStatus, i, testsPassed, cleanTrials, nStress, gpuWork>>

\* the outer loop ends: return true
ValidateDone ==
    /\ pc = "ValidateLoop"
    /\ ~(tile_id < size)
    /\ ret' = TRUE
    /\ pc' = "RunTestAdd"
    /\ Quiet
    /\ UNCHANGED <<argVars, stack, exitStatus, ctxVars, waitVars, gpuVars, readOut, tile_id, tid,
                   mapCalls, mapStatus, maxRead, runVars, gpuWork>>

(***************************************************************************)
(* A call through a null handle is undefined behaviour: the process may    *)
(* die there, or the call may behave as a failed operation (the other      *)
(* actions, whose callbacks then report "Error").                          *)
(***************************************************************************)
InstanceSteps == {"RequestAdapter"}

AdapterSteps == {"GetInfo", "RequestDevice"}

DeviceSteps ==
    {"GetQueue", "GetGPUBuffers", "CreateShader", "GetComputeShaderPipeline",
     "InitializeUniforms", "QueueSync", "submit", "CopyBufferSync", "ReadbackSync"}

UsesNullHandle ==
    \/ pc \in InstanceSteps /\ instance = "null"
    \/ pc = "wait" /\ promise = "pending" /\ instance = "null"
    \/ pc \in AdapterSteps /\ adapter = "null"
    \/ pc \in DeviceSteps /\ device = "null"
    \/ pc = "loop" /\ i < batchSize /\ device = "null"

Crash ==
    /\ exitStatus = "running"
    /\ UsesNullHandle
    /\ pc' = "crashed"
    /\ exitStatus' = "crashed"
    /\ Quiet
    /\ UNCHANGED <<argVars, stack, ctxVars, waitVars, gpuVars, valVars, runVars, gpuWork>>

\* main before GetGPUContext: the argument checks
ArgStep == MainArgc \/ MainParseSize \/ MainParseBatch

HostStep ==
    \/ CreateInstance \/ RequestAdapter \/ GetInfo \/ RequestDevice \/ GetQueue
    \/ GetGPUBuffers \/ CreateShaderFromSource \/ GetComputeShaderPipeline
    \/ InitializeUniforms \/ QueueSync \/ WaitReturn
    \/ RunTestBegin \/ RunTestEncode \/ RunTestSubmit \/ RunTestAdd \/ RunTestPrint
    \/ ValidateEntry \/ CopyBufferSync \/ ReadbackSync \/ ValidateStep \/ ValidateDone
    \/ MainReturn

Callback ==
    \/ AdapterCallback \/ DeviceCallback \/ CompilationCallback
    \/ WorkDoneCallback \/ MapCallback

Next == ArgStep \/ HostStep \/ Callback \/ ProcessEventsIdle \/ Crash

Spec == Init /\ [][Next]_vars

\* every registered callback eventually fires once the event queue is
\* pumped, and main's thread keeps running
FairSpec == Spec /\ WF_vars(HostStep) /\ WF_vars(Callback)

(***************************************************************************)
(* Vocabulary of the properties.                                           *)
(***************************************************************************)
ParsePcs == {"main", "parseSize", "parseBatch"}

ArgsAccepted == pc \notin ParsePcs \cup {"exit"}

InBounds == size <= MaxSize /\ batchSize <= MaxTrials

SummaryPrinted == pc = "done" /\ cout.kind = "summary"

NegotiationFailed == instance = "null" \/ adapter = "null" \/ device = "null"

\* pairs are numbered 0 .. 2 * size - 1: pair 2 * tile + slot
PairCode(v, q) == v[2 * q + 1]

PairGot(v, q) == v[2 * q + 2]

Pairs(v) == 0..((Len(v) \div 2) - 1)

\* the ready-state pattern of a slot, written out: 0x40000400 for slot 0,
\* 0x40000000 for slot 1
ReadyWord(k) == IF k = 0 THEN W(16384, 1024) ELSE W(16384, 0)

TopBitSet(w) == w.hi >= 32768

ValidateReturned == pc = "RunTestAdd" /\ size > 0

C2_Inv ==
    /\ 0 <= testsPassed /\ testsPassed <= i /\ i <= batchSize
    /\ cout.kind = "summary" =>
          /\ cout.total = batchSize
          /\ cout.passed = testsPassed
          /\ 0 <= cout.passed /\ cout.passed <= cout.total

C2_Step ==
    /\ testsPassed' \in {testsPassed, testsPassed + 1}
    /\ testsPassed' # testsPassed => i' = i + 1
    /\ i' \in {i, i + 1}

C2_PassCount == []C2_Inv /\ [][C2_Step]_vars

C2_Witness ==
    /\ SummaryPrinted
    /\ 0 < cout.passed
    /\ cout.passed < cout.total

(***************************************************************************)
(* C3.  At the end of a batch on a working device the pass count equals    *)
(* the number of trials whose telemetry had error code 0 in every pair,    *)
(* and the all-pass annotation is printed exactly when passed = trials.    *)
(***************************************************************************)
C3_Orig ==
    (SummaryPrinted /\ device = "valid") =>
        /\ cout.passed = cleanTrials
        /\ (cout.note = " ALL TESTS PASSED") <=> (cout.passed = batchSize)

(***************************************************************************)
(* C4.  No skip-on-failure: when RunTest ends every one of the batchSize   *)
(* trials has been submitted and validated, and inside the loop the        *)
(* number of init+stress submissions is the number of completed trials,    *)
(* or one more while a trial is in progress, whatever the pass count.      *)
(***************************************************************************)
C4_NoSkip ==
    /\ pc \in {"return", "done"} => (nStress = batchSize /\ i = batchSize)
    /\ pc = "loop" => nStress = i
    /\ pc \in {"Validate", "CopyBufferSync", "ReadbackSync", "ValidateLoop", "RunTestAdd"}
          => nStress = i + 1

C4_Witness ==
    /\ pc = "done"
    /\ device = "valid"
    /\ batchSize > 1
    /\ testsPassed = 0
    /\ nStress = batchSize

(***************************************************************************)
(* C5.  After a failed instance creation, adapter negotiation or device    *)
(* negotiation no buffer is created, no shader is compiled and nothing is  *)
(* submitted, and the process does not end with a success status.          *)
(***************************************************************************)
C5_Orig == NegotiationFailed => (gpuWork = 0 /\ exitStatus # "EXIT_SUCCESS")

(***************************************************************************)
(* C6.  Original statement: a code-1 entry whose observed value is the     *)
(* ready pattern of its slot does not fail the trial, and any other        *)
(* code-1 entry without the top bit and not zero does.                     *)
(***************************************************************************)
C6_Orig ==
    /\ (ValidateReturned /\ ~ret /\ cout.kind = "diag" /\ cout.code = U(1))
          => cout.got # ReadyWord(cout.tid)
    /\ (ValidateReturned /\ ret) =>
          \A q \in Pairs(readOut) :
              PairCode(readOut, q) = U(1) =>
                  \/ PairGot(readOut, q) \in {U(0), ReadyWord(q % 2)}
                  \/ TopBitSet(PairGot(readOut, q))

(***************************************************************************)
(* C6, amended: the observed value is never compared. Every entry with     *)
(* error code 1 that Validate reaches fails the trial, also when its       *)
(* value is the ready pattern; the diagnostic names the tile, the slot     *)
(* and the value, and prints the slot's ready pattern as expected value.   *)
(***************************************************************************)
C6_Code1AlwaysFails ==
    /\ (ValidateReturned /\ ret) =>
          \A q \in Pairs(readOut) : PairCode(readOut, q) # U(1)
    /\ pc = "ValidateLoop" =>
          \A q \in Pairs(readOut) :
              q < 2 * tile_id + tid => PairCode(readOut, q) # U(1)
    /\ (ValidateReturned /\ ~ret /\ PairCode(readOut, 2 * tile_id + tid) = U(1)) =>
          cout = [kind |-> "diag", class |-> "message", tile |-> tile_id, tid |-> tid,
                  code |-> U(1), got |-> PairGot(readOut, 2 * tile_id + tid),
                  expected |-> ReadyWord(tid)]

C6_Witness ==
    /\ ValidateReturned
    /\ ~ret
    /\ cout.kind = "diag"
    /\ cout.class = "message"
    /\ cout.got = ReadyWord(cout.tid)

(***************************************************************************)
(* C7.  Original statement: a code-1 entry whose observed value has bit    *)
(* 31 set does not fail the trial.                                         *)
(***************************************************************************)
C7_Orig ==
    (ValidateReturned /\ ~ret /\ cout.kind = "diag" /\ cout.code = U(1))
        => ~TopBitSet(cout.got)

(***************************************************************************)
(* C7, amended: a code-1 entry whose observed value has bit 31 set fails   *)
(* the trial like any other code-1 entry: Validate never passes a vector   *)
(* that holds one, and never steps over one.                               *)
(***************************************************************************)
C7_InclusiveStillFails ==
    LET Incl(q) == PairCode(readOut, q) = U(1) /\ TopBitSet(PairGot(readOut, q))
    IN  /\ (ValidateReturned /\ ret) => \A q \in Pairs(readOut) : ~Incl(q)
        /\ pc = "ValidateLoop" =>
              \A q \in Pairs(readOut) : q < 2 * tile_id + tid => ~Incl(q)
        /\ (ValidateReturned /\ ~ret /\ Incl(2 * tile_id + tid)) =>
              (cout.kind = "diag" /\ cout.class = "message" /\ TopBitSet(cout.got))

C7_Witness ==
    /\ ValidateReturned
    /\ ~ret
    /\ cout.kind = "diag"
    /\ cout.class = "message"
    /\ TopBitSet(cout.got)
    /\ cout.tile > 0

(***************************************************************************)
(* C8.  Validate reads the pairs in increasing tile order and, within a    *)
(* tile, increasing slot order, and stops at the first pair with a         *)
(* nonzero code: the diagnostic names that pair and its words, it is the   *)
(* only diagnostic of the trial, and no word after that pair is read.      *)
(***************************************************************************)
C8_FirstFailure ==
    LET cur == 2 * tile_id + tid
    IN  /\ pc = "ValidateLoop" =>
              /\ maxRead = 2 * cur
              /\ trialDiags = 0
              /\ \A q \in Pairs(readOut) : q < cur => PairCode(readOut, q) = U(0)
        /\ (ValidateReturned /\ ~ret) =>
              /\ \A q \in Pairs(readOut) : q < cur => PairCode(readOut, q) = U(0)
              /\ PairCode(readOut, cur) # U(0)
              /\ cout.kind = "diag"
              /\ cout.tile = tile_id /\ cout.tid = tid
              /\ cout.code = readOut[4 * tile_id + 2 * tid + 1]
              /\ cout.got = readOut[4 * tile_id + 2 * tid + 1 + 1]
              /\ trialDiags = 1
              /\ maxRead = 4 * tile_id + 2 * tid + 2
        /\ (ValidateReturned /\ ret) =>
              /\ \A q \in Pairs(readOut) : PairCode(readOut, q) = U(0)
              /\ trialDiags = 0
              /\ cout = NoOut

C8_Witness ==
    /\ ValidateReturned
    /\ ~ret
    /\ tile_id > 0
    /\ trialDiags = 1
    /\ \E q \in Pairs(readOut) : q > 2 * tile_id + tid /\ PairCode(readOut, q) # U(0)

(***************************************************************************)
(* C9.  After a failed map on a working device the map is not requested    *)
(* again, the host vector is left as it was, and Validate decodes no       *)
(* entry of it.                                                            *)
(***************************************************************************)
C9_Orig ==
    (mapStatus = "Error" /\ device = "valid") =>
        /\ mapCalls = 1
        /\ readOut = ZeroVec(size * SPLIT_THREADS * 2)
        /\ maxRead = 0

(***************************************************************************)
(* C10.  An argument error (argc other than 3, a value that is not a       *)
(* decimal numeral over its whole length, a size above 65535, a trial      *)
(* count above 1023) ends main with EXIT_FAILURE before any instance,      *)
(* adapter or device request; 65536 is rejected, 65535 and 1023 are        *)
(* accepted.                                                               *)
(***************************************************************************)
\* s is blanks, an optional sign, then one or more digits, and nothing else
IsNumeral(s) ==
    \E a \in 0..Len(s) : \E b \in {a, a + 1} :
        /\ b < Len(s)
        /\ \A k \in 1..a : IsSpace(s[k])
        /\ b = a + 1 => s[b] \in {"+", "-"}
        /\ \A k \in (b + 1)..Len(s) : s[k] \in Digits

IsNegative(s) == \E k \in 1..Len(s) : s[k] = "-"

DigitsOf(s) == SelectSeq(s, LAMBDA c : c \in Digits)

RECURSIVE StripZeros(_)
StripZeros(d) == IF d # <<>> /\ Head(d) = "0" THEN StripZeros(Tail(d)) ELSE d

RECURSIVE ValueOf(_)
ValueOf(d) == IF d = <<>> THEN 0 ELSE 10 * ValueOf(SubSeq(d, 1, Len(d) - 1)) + DigitVal(d[Len(d)])

\* the numeral s denotes a number above max (max < 10^6)
Above(s, max) ==
    LET d == StripZeros(DigitsOf(s))
    IN  ~IsNegative(s) /\ (Len(d) > 6 \/ ValueOf(d) > max)

BadValue(s, max) == ~IsNumeral(s) \/ Above(s, max)

ArgError ==
    \/ Len(argv) # 2
    \/ BadValue(argv[1], 65535)
    \/ BadValue(argv[2], 1023)

C10_ArgErrorsExitFirst ==
    /\ ArgError =>
          /\ pc \in ParsePcs \cup {"exit"}
          /\ pc = "exit" => exitStatus = "EXIT_FAILURE"
          /\ instance = "unset" /\ adapter = "unset" /\ device = "unset"
          /\ pending = <<>> /\ gpuWork = 0
    /\ pc = "parseSize" => Len(argv) = 2
    /\ pc = "parseBatch" => (Len(argv) = 2 /\ ~BadValue(argv[1], 65535))
    /\ (pc = "exit" /\ Len(argv) = 2) =>
          (argv[1] # Dec(65535) /\ argv # <<Dec(1), Dec(1023)>>)
    /\ (ArgsAccepted /\ argv = <<Dec(65535), Dec(1)>>) => size = 65535
    /\ (ArgsAccepted /\ argv = <<Dec(1), Dec(1023)>>) => batchSize = 1023

C10_Witness ==
    /\ pc = "exit"
    /\ argv = <<Dec(65536), Dec(1)>>
    /\ exitStatus = "EXIT_FAILURE"
    /\ instance = "unset"

(***************************************************************************)
(* C11.  Once the arguments are accepted the exit status is never a        *)
(* failure status; when main returns, the status is success and every      *)
(* trial of the batch has run, whatever the pass count; and a batch that   *)
(* starts on a working device ends with main returning success.            *)
(***************************************************************************)
C11_Inv ==
    /\ ArgsAccepted => exitStatus # "EXIT_FAILURE"
    /\ pc = "done" => (exitStatus = "EXIT_SUCCESS" /\ i = batchSize)
    /\ (ArgsAccepted /\ pc # "done" /\ device # "null" /\ adapter # "null"
          /\ instance # "null") => exitStatus = "running"

BatchStarted == pc = "RunTest" /\ device = "valid" /\ InBounds

C11_SuccessWhateverFails ==
    /\ []C11_Inv
    /\ BatchStarted ~> (pc = "done" /\ exitStatus = "EXIT_SUCCESS")

C11_Witness ==
    /\ pc = "done"
    /\ exitStatus = "EXIT_SUCCESS"
    /\ device = "valid"
    /\ size > 0
    /\ batchSize > 0
    /\ testsPassed < batchSize
    /\ cleanTrials < batchSize

(***************************************************************************)
(* C12.  At size 0 Validate returns pass at once for every trial: it       *)
(* submits no copy, requests no map and reads no word, whatever the        *)
(* device reported, so every completed trial is a pass and the summary     *)
(* of n trials is n of n.                                                  *)
(***************************************************************************)
C12_SizeZeroPasses ==
    (ArgsAccepted /\ size = 0) =>
        /\ pc \notin {"CopyBufferSync", "ReadbackSync", "ValidateLoop"}
        /\ mapCalls = 0 /\ maxRead = 0 /\ trialDiags = 0
        /\ pc = "RunTestAdd" => ret
        /\ testsPassed = i
        /\ cout.kind = "summary" =>
              (cout.passed = batchSize /\ cout.total = batchSize
                 /\ cout.note = " ALL TESTS PASSED")

C12_Witness ==
    /\ SummaryPrinted
    /\ size = 0
    /\ batchSize > 1
    /\ cout.passed = batchSize
    /\ device = "valid"

(***************************************************************************)
(* C13.  An entry whose error code is none of 0, 1, 2 is unclassified:     *)
(* CheckError fails it for every observed value and reports the raw code   *)
(* and value, and Validate stops the trial at that entry: no vector that   *)
(* holds such a code passes, and the failure at such an entry prints the   *)
(* unknown-code diagnostic with the words of that entry.                   *)
(***************************************************************************)
Classified == {U(0), U(ERROR_TYPE_MESSAGE), U(ERROR_TYPE_SHUFFLE)}

SampleCodes == {U(3), U(4), W(1, 0), W(16384, 1), W(65535, 65535)}

SampleValues == {U(0), U(9), W(16384, 1024), W(16384, 0), W(32768, 5), W(65535, 65535)}

C13_UnknownFails ==
    /\ \A c \in SampleCodes : \A g \in SampleValues : \A k \in 0..(SPLIT_THREADS - 1) :
          CheckError(c, g, size, k) =
              [ok |-> FALSE,
               out |-> [kind |-> "diag", class |-> "unknown", tile |-> size, tid |-> k,
                        code |-> c, got |-> g, expected |-> U(0)]]
    /\ (ValidateReturned /\ ret) =>
          \A q \in Pairs(readOut) : PairCode(readOut, q) \in Classified
    /\ pc = "ValidateLoop" =>
          \A q \in Pairs(readOut) :
              q < 2 * tile_id + tid => PairCode(readOut, q) \in Classified
    /\ (ValidateReturned /\ ~ret /\ PairCode(readOut, 2 * tile_id + tid) \notin Classified) =>
          /\ cout.kind = "diag" /\ cout.class = "unknown"
          /\ cout.code = PairCode(readOut, 2 * tile_id + tid)
          /\ cout.got = PairGot(readOut, 2 * tile_id + tid)
          /\ cout.tile = tile_id /\ cout.tid = tid

C13_Witness ==
    /\ ValidateReturned
    /\ ~ret
    /\ cout.kind = "diag"
    /\ cout.class = "unknown"
    /\ cout.code = W(65535, 65535)
    /\ TopBitSet(cout.got)

(***************************************************************************)
(* C14.  The outcome of a trial's validation on a working device is        *)
(* determined by the telemetry the trial's own stress dispatch wrote:      *)
(* pass exactly when every error code of it is 0, and otherwise a failure  *)
(* attributed to its first pair with a nonzero code.                       *)
(***************************************************************************)
AllCodesZero(v) == \A q \in Pairs(v) : PairCode(v, q) = U(0)

FirstNonzero(v) ==
    CHOOSE q \in Pairs(v) :
        /\ PairCode(v, q) # U(0)
        /\ \A r \in Pairs(v) : r < q => PairCode(v, r) = U(0)

C14_Orig ==
    (ValidateReturned /\ device = "valid") =>
        /\ ret <=> AllCodesZero(err.data)
        /\ ~ret => (cout.kind = "diag" /\ 2 * cout.tile + cout.tid = FirstNonzero(err.data))

(***************************************************************************)
(* C15.  No read before the writer is reported complete: when the copy     *)
(* into the staging buffer is submitted, the queue-done callback of the    *)
(* trial's init+stress submission has fired (nothing is left in flight     *)
(* and the error buffer holds this trial's write); when the map is         *)
(* requested, and for as long as the map is pending, the queue-done        *)
(* callback of the copy has fired and the staging buffer holds that copy.  *)
(***************************************************************************)
InFlight == queue # <<>> \/ pending # <<>>

C15_ReadAfterComplete ==
    /\ pc = "CopyBufferSync" =>
          /\ ~InFlight
          /\ device = "valid" => (err.ver = nStress /\ nStress = i + 1)
    /\ pc = "ReadbackSync" =>
          /\ ~InFlight
          /\ device = "valid" => (readback.holds = err.ver /\ err.ver = nStress)
    /\ readback.map # "unmapped" =>
          /\ queue = <<>>
          /\ pending = <<"map">>
          /\ device = "valid" => readback.holds = err.ver
    /\ pc = "ValidateLoop" => ~InFlight
    /\ (pc = "ValidateLoop" /\ mapStatus = "Success") => readOut = err.data

C15_Witness ==
    /\ pc = "ValidateLoop"
    /\ mapStatus = "Success"
    /\ i > 0
    /\ nStress = i + 1
    /\ readback.holds = nStress
    /\ ~AllCodesZero(readOut)

(***************************************************************************)
(* C16.  At most one asynchronous operation is pending at any time, and    *)
(* while one is pending main's thread is in its wait loop (or has died     *)
(* there): an operation is registered, and a command stream is submitted,  *)
(* only when no callback is outstanding and no earlier submission is       *)
(* unretired.                                                              *)
(***************************************************************************)
Ops == {"adapter", "device", "compile", "workdone", "map"}

C16_Inv ==
    /\ Len(pending) <= 1
    /\ \A k \in 1..Len(pending) : pending[k] \in Ops
    /\ pending # <<>> => (pc \in {"wait", "crashed"} /\ promise = "pending")
    /\ Len(queue) <= 1
    /\ queue # <<>> => pc \in {"QueueSync", "wait"}
    /\ (queue # <<>> /\ pending # <<>>) => pending = <<"workdone">>

C16_Step ==
    /\ Len(pending') > Len(pending) => (pending = <<>> /\ promise # "pending")
    /\ Len(queue') > Len(queue) => (pending = <<>> /\ queue = <<>>)
    /\ gpuWork' > gpuWork => pending = <<>>

C16_OneAtATime == []C16_Inv /\ [][C16_Step]_vars

C16_Witness ==
    /\ pc = "wait"
    /\ pending = <<"workdone">>
    /\ Len(queue) = 1
    /\ queue[1].kind = "copy"
    /\ i > 0

(***************************************************************************)
(* C17.  Every bridged operation completes exactly once: the firing of a   *)
(* callback retires its operation and sets the promise, on the success     *)
(* and on the failure branch alike, and a promise is set only by a         *)
(* callback and only while it is unset; the wait loop is left only with    *)
(* the promise set; while the callback has not fired, main's thread stays  *)
(* in the wait loop and changes nothing (no timeout, no cancellation).     *)
(***************************************************************************)
C17_Inv ==
    /\ promise = "set" => (pending = <<>> /\ pc = "wait")
    /\ promise = "pending" => (Len(pending) = 1 /\ pc \in {"wait", "crashed"})
    /\ promise = "none" => pending = <<>>

C17_Step ==
    /\ Len(pending') < Len(pending) =>
          (promise = "pending" /\ promise' = "set" /\ pending' = Tail(pending))
    /\ (promise' = "set" /\ promise # "set") =>
          (promise = "pending" /\ pending' = Tail(pending))
    /\ (pc = "wait" /\ pc' # "wait") =>
          \/ promise = "set" /\ promise' = "none" /\ pc' = Head(stack)
          \/ pc' = "crashed"
    /\ (pc = "wait" /\ promise = "pending" /\ pending' = pending) =>
          /\ pc' \in {"wait", "crashed"}
          /\ <<argVars, ctxVars, gpuVars, valVars, runVars, gpuWork, stack>>' =
                <<argVars, ctxVars, gpuVars, valVars, runVars, gpuWork, stack>>

C17_ExactlyOnce == []C17_Inv /\ [][C17_Step]_vars

C17_Witness ==
    /\ pc = "wait"
    /\ promise = "set"
    /\ cerr = "Bad readback"
    /\ device = "valid"
    /\ mapStatus = "Error"

(***************************************************************************)
(* C18.  A trial goes through Encoding, Submitted, Awaiting, Validating,   *)
(* Done in that order and the next trial is encoded only from the idle     *)
(* loop head after Done.  The command buffer of a trial holds the init     *)
(* dispatch (256 tiles) immediately followed by the stress dispatch (size  *)
(* tiles) and is the only thing in the queue while awaited; validation     *)
(* starts with nothing in flight; a trial is encoded with nothing in       *)
(* flight, the staging buffer unmapped and no host vector of an earlier    *)
(* validation alive.                                                       *)
(***************************************************************************)
Caller == IF stack = <<>> THEN "none" ELSE Head(stack)

Phase ==
    IF pc = "loop" THEN "Idle"
    ELSE IF pc = "submit" THEN "Encoding"
    ELSE IF pc = "QueueSync" /\ Caller = "Validate" THEN "Submitted"
    ELSE IF pc = "wait" /\ Caller = "Validate" THEN "Awaiting"
    ELSE IF pc \in {"Validate", "CopyBufferSync", "ReadbackSync", "ValidateLoop"}
            \/ (pc \in {"QueueSync", "wait"} /\ Caller \in {"ReadbackSync", "ValidateLoop"})
         THEN "Validating"
    ELSE IF pc = "RunTestAdd" THEN "Done"
    ELSE "Outside"

PhaseOrder ==
    {<<"Outside", "Idle">>, <<"Idle", "Encoding">>, <<"Encoding", "Submitted">>,
     <<"Submitted", "Awaiting">>, <<"Awaiting", "Validating">>, <<"Validating", "Done">>,
     <<"Done", "Idle">>, <<"Idle", "Outside">>}

TrialStream ==
    [kind |-> "compute",
     passes |-> <<[label |-> "Init", workTiles |-> 256],
                  [label |-> "Stress", workTiles |-> size]>>]

C18_Inv ==
    /\ Phase = "Idle" =>
          /\ ~InFlight /\ comBuffer = <<>> /\ readback.map = "unmapped"
          /\ readOut = <<>> /\ nStress = i
    /\ Phase = "Encoding" => (~InFlight /\ comBuffer = TrialStream /\ nStress = i)
    /\ (Phase \in {"Submitted", "Awaiting"} /\ device = "valid") =>
          (queue \in {<<>>, <<TrialStream>>} /\ nStress = i + 1)
    /\ (Phase = "Submitted" /\ device = "valid") => queue = <<TrialStream>>
    /\ pc = "Validate" => (~InFlight /\ (device = "valid" => err.ver = i + 1))
    /\ Phase = "Validating" =>
          /\ nStress = i + 1
          /\ \A k \in 1..Len(queue) : queue[k].kind = "copy"
    /\ Phase = "Done" => (~InFlight /\ readback.map = "unmapped" /\ nStress = i + 1)

C18_Step ==
    /\ (Phase' # Phase /\ pc' # "crashed") => <<Phase, Phase'>> \in PhaseOrder
    /\ i' # i => (Phase = "Done" /\ Phase' = "Idle" /\ i' = i + 1) \/ Phase = "Outside"
    /\ nStress' # nStress => (Phase = "Encoding" /\ Phase' = "Submitted")

C18_TrialOrder == []C18_Inv /\ [][C18_Step]_vars

C18_Witness ==
    /\ Phase = "Awaiting"
    /\ queue = <<TrialStream>>
    /\ i > 0
    /\ testsPassed = 0
    /\ size > 1

(***************************************************************************)
(* C19.  When the map of a trial's readback fails, the host vector keeps   *)
(* its initial zeros, Validate's loop runs over it to the end without a    *)
(* diagnostic and returns pass, and RunTest adds the trial to the pass     *)
(* count, whatever telemetry the error buffer holds.                       *)
(***************************************************************************)
MapFailed == mapStatus = "Error"

C19_Inv ==
    MapFailed =>
        /\ size > 0
        /\ readOut = [w \in 1..(4 * size) |-> [hi |-> 0, lo |-> 0]]
        /\ trialDiags = 0
        /\ pc \in {"wait", "ValidateLoop", "RunTestAdd", "crashed"}
        /\ pc = "RunTestAdd" => (ret /\ maxRead = 4 * size)

C19_Step ==
    /\ (MapFailed /\ pc = "ValidateLoop" /\ pc' # pc) => (pc' = "RunTestAdd" /\ ret')
    /\ (MapFailed /\ pc = "RunTestAdd" /\ pc' # pc) => testsPassed' = testsPassed + 1

C19_FailedMapPasses == []C19_Inv /\ [][C19_Step]_vars

C19_Witness ==
    /\ SummaryPrinted
    /\ device = "valid"
    /\ size > 1
    /\ batchSize > 1
    /\ cleanTrials = 0
    /\ cout.passed = batchSize
    /\ ~AllCodesZero(err.data)

(***************************************************************************)
(* C20.  The staging buffer is unmapped whenever a copy into it is         *)
(* submitted or in the queue and whenever a map is requested; a map        *)
(* request is outstanding only during ReadbackSync's wait; the callback    *)
(* leaves the buffer unmapped before the wait returns, so the buffer is    *)
(* never seen mapped, never mapped twice, and never copied into while      *)
(* mapped or while a map is pending.                                       *)
(***************************************************************************)
CopyQueued == \E k \in 1..Len(queue) : queue[k].kind = "copy"

C20_Inv ==
    /\ readback.map \in {"unmapped", "pending"}
    /\ pc \in {"CopyBufferSync", "ReadbackSync"} => readback.map = "unmapped"
    /\ CopyQueued => readback.map = "unmapped"
    /\ readback.map = "pending" =>
          (pending = <<"map">> /\ pc \in {"wait", "crashed"} /\ Caller = "ValidateLoop")
    /\ (pc = "wait" /\ promise = "set") => readback.map = "unmapped"
    /\ mapCalls <= 1

C20_Step ==
    /\ (readback.map' # "unmapped" /\ readback.map' # readback.map) =>
          (readback.map = "unmapped" /\ readback.map' = "pending" /\ pc = "ReadbackSync")
    /\ (readback.map = "pending" /\ readback.map' # "pending") =>
          (readback.map' = "unmapped" /\ promise' = "set" /\ pc' = "wait")
    /\ (CopyQueued' /\ ~CopyQueued) => (readback.map = "unmapped" /\ readback.map' = "unmapped")

C20_StagingUnmapped == []C20_Inv /\ [][C20_Step]_vars

C20_Witness ==
    /\ pc = "ReadbackSync"
    /\ device = "valid"
    /\ i > 0
    /\ testsPassed = 0
    /\ readback.map = "unmapped"
    /\ readback.holds = err.ver

(***************************************************************************)
(* C21.  For every accepted size from 1 to 65535 the telemetry accesses    *)
(* stay in bounds and no 32-bit product wraps: 4 * size and 16 * size      *)
(* have no carry out of 32 bits; the host vector has 4 * size words and    *)
(* every index Validate reads is below that; the error buffer and the      *)
(* staging buffer have 16 * size bytes each, and every copy and every map  *)
(* request covers exactly 16 * size bytes from offset 0.                   *)
(***************************************************************************)
HalfRange == 65536

Word32(n) == W(n \div HalfRange, n % HalfRange)

\* the 32-bit product of word x and a small factor k, with its carry out
MulSmall(x, k) ==
    LET lo == x.lo * k
        hi == x.hi * k + lo \div HalfRange
    IN  [w |-> W(hi % HalfRange, lo % HalfRange), carry |-> hi \div HalfRange]

\* the 32-bit sum of word x and a small addend k, with its carry out
AddSmall(x, k) ==
    LET lo == x.lo + k
        hi == x.hi + lo \div HalfRange
    IN  [w |-> W(hi % HalfRange, lo % HalfRange), carry |-> hi \div HalfRange]

\* the number a word stands for (words below 2^31 only)
ValueOfWord(w) == w.hi * HalfRange + w.lo

\* the arithmetic of Validate and of the buffer sizes for size n, in 32 bits
NoWrap(n) ==
    LET words == MulSmall(Word32(n), 4)
        bytes == MulSmall(words.w, 4)
        lastT == MulSmall(Word32(n - 1), 4)
        lastErr == AddSmall(lastT.w, 2)
        lastGot == AddSmall(lastErr.w, 1)
    IN  /\ words.carry = 0 /\ ValueOfWord(words.w) = 4 * n
        /\ bytes.carry = 0 /\ ValueOfWord(bytes.w) = 16 * n
        /\ lastT.carry = 0 /\ lastErr.carry = 0 /\ lastGot.carry = 0
        /\ ValueOfWord(lastGot.w) = 4 * n - 1
        /\ ValueOfWord(lastGot.w) < ValueOfWord(words.w)

SampleSizes == {1, 2, 3, 255, 256, 1024, 16383, 16384, 32767, 32768, 65534, 65535}

C21_InBounds ==
    /\ \A n \in SampleSizes : NoWrap(n)
    /\ MulSmall(MulSmall(W(4095, 65535), 4).w, 4).carry = 0
    /\ MulSmall(MulSmall(W(4096, 0), 4).w, 4).carry = 1
    /\ (ArgsAccepted /\ size >= 1) =>
          /\ size <= 65535
          /\ NoWrap(size)
          /\ buffs.created => (buffs.err = 16 * size /\ buffs.readback = 16 * size)
          /\ readOut # <<>> => Len(readOut) = 4 * size
          /\ maxRead <= Len(readOut)
          /\ (pc = "ValidateLoop" /\ tile_id < size) =>
                (tid < 2 /\ 4 * tile_id + 2 * tid + 1 <= 4 * size - 1)
          /\ \A k \in 1..Len(queue) :
                queue[k].kind = "copy" =>
                    /\ queue[k].offset = 0
                    /\ queue[k].bytes = 16 * size
                    /\ queue[k].offset + queue[k].bytes <= buffs.err
                    /\ queue[k].bytes <= buffs.readback
          /\ readback.bytes \in {0, 16 * size}
          /\ readback.map = "pending" =>
                (readback.bytes = 16 * size /\ readback.bytes <= buffs.readback)

C21_Witness ==
    /\ pc = "RunTestAdd"
    /\ size > 1
    /\ mapStatus = "Success"
    /\ ret
    /\ maxRead = 4 * size
    /\ readback.bytes = buffs.readback
    /\ i > 0
====
